---------------------------- MODULE Spec2Model ----------------------------
(***************************************************************************)
(* Model of apputil.py: the data transforms of the Titanic dashboard.      *)
(*                                                                         *)
(* A DataFrame is a record [columns, rows]: the set of column names and    *)
(* the sequence of rows, each row a function from the column names to      *)
(* cells.  A cell of a nullable column is <<>> (pandas' NaN) or <<v>>.     *)
(* A float produced by a division is kept exact, as [num, den].            *)
(* A call that raises leaves [status |-> "raised"] as its result.          *)
(*                                                                         *)
(* The functions of the module may be called in any order on the table     *)
(* app.py loads.  pd.cut accepts or rejects a NaN bin edge depending on    *)
(* the pandas release, so survival_demographics takes either outcome when  *)
(* no age of the table is known.                                           *)
(***************************************************************************)
EXTENDS Integers, Sequences, FiniteSets, TLC

VARIABLES
    df,       \* the caller's table, the object every transform is handed
    passed,   \* the value of df when the last call was made
    result    \* what the last call returned, or the exception it raised

vars == <<df, passed, result>>

\* Largest number of rows of the table.
MaxRows == 3

---------------------------------------------------------------------------
\* Cells and exact floats

NaN == <<>>
Some(v) == <<v>>
isna(x) == x = <<>>
Val(x) == x[1]

\* a < b on cells; every comparison with NaN is False
lt(a, b) == ~isna(a) /\ ~isna(b) /\ Val(a) < Val(b)

\* truediv with its operands exchanged
truediv_exchanged(a, b) == IF a = 0 /\ b = 0 THEN NaN ELSE Some([num |-> b, den |-> a])

\* a / b on integers as pandas divides: 0/0 is NaN, and den = 0 stands for inf
truediv(a, b) == IF a = 0 /\ b = 0 THEN NaN ELSE Some([num |-> a, den |-> b])

RECURSIVE SumSeq(_)
SumSeq(s) == IF s = <<>> THEN 0 ELSE Head(s) + SumSeq(Tail(s))

RECURSIVE Concat(_)
Concat(ss) == IF ss = <<>> THEN <<>> ELSE Head(ss) \o Concat(Tail(ss))

\* The integers of S in ascending order
RECURSIVE SortSet(_)
SortSet(S) ==
    IF S = {} THEN <<>>
    ELSE LET m == CHOOSE x \in S : \A y \in S : x <= y
         IN <<m>> \o SortSet(S \ {m})

\* The indices of s in ascending order, as a sequence
Index(s) == [i \in 1..Len(s) |-> i]

---------------------------------------------------------------------------
\* DataFrame primitives

nrows(d) == Len(d.rows)

\* d[col]
Column(d, col) == [i \in 1..nrows(d) |-> d.rows[i][col]]

\* d[col] = values, on the object d
setitem(d, col, values) ==
    [columns |-> d.columns \cup {col},
     rows |-> [i \in 1..nrows(d) |->
                 [c \in d.columns \cup {col} |->
                     IF c = col THEN values[i] ELSE d.rows[i][c]]]]

\* Series.max(): the largest non-null value, NaN when there is none
max(s) ==
    LET vals == {Val(s[i]) : i \in {j \in 1..Len(s) : ~isna(s[j])}}
    IN IF vals = {} THEN NaN
       ELSE Some(CHOOSE x \in vals : \A y \in vals : y <= x)

\* Series.min()
min(s) ==
    LET vals == {Val(s[i]) : i \in {j \in 1..Len(s) : ~isna(s[j])}}
    IN IF vals = {} THEN NaN
       ELSE Some(CHOOSE x \in vals : \A y \in vals : x <= y)

\* the non-null cells of s at the indices idx (an ascending sequence), unwrapped
notna(s, idx) ==
    LET keep == SelectSeq(idx, LAMBDA i : ~isna(s[i]))
    IN [k \in 1..Len(keep) |-> Val(s[keep[k]])]

\* Series.count() over the rows idx: the non-null cells
count(s, idx) == Len(notna(s, idx))

\* Series.mean() over the rows idx: nulls skipped, NaN when none is left
mean(s, idx) ==
    LET v == notna(s, idx) IN truediv(SumSeq(v), Len(v))

\* Series.sum() over the rows idx: nulls skipped
sum(s, idx) == SumSeq(notna(s, idx))

\* a column that holds no null, as cells
Cells(s) == [i \in 1..Len(s) |-> Some(s[i])]

Raised(call, error) == [status |-> "raised", call |-> call, error |-> error]
Returned(call, value) == [status |-> "ok", call |-> call, value |-> value]

---------------------------------------------------------------------------
\* Exercise 1: survival_demographics

bins(d) == <<Some(0), Some(12), Some(19), Some(59), max(Column(d, "Age"))>>
labels == <<"Child (0-12)", "Teen (13-19)", "Adult (20-59)", "Senior (60+)">>

\* pd.cut's check of the edges: "" when they pass, else the error raised.
\* An edge that is NaN passes or raises with the pandas release (nanRaises).
cut_error(b, nanRaises) ==
    IF \E k \in 1..Len(b) : isna(b[k])
    THEN (IF nanRaises THEN "ValueError" ELSE "")
    ELSE IF \E k \in 1..(Len(b) - 1) : Val(b[k + 1]) < Val(b[k])
         THEN "ValueError"      \* bins must increase monotonically
         ELSE IF \E k \in 1..(Len(b) - 1) : Val(b[k + 1]) = Val(b[k])
              THEN "ValueError" \* Bin edges must be unique
              ELSE ""

\* pd.cut(x, bins=b, labels=l, right=True) on one cell: the band k with
\* b[k] < x <= b[k+1]
cut1(x, b, l) ==
    LET hits == {k \in 1..Len(l) : lt(b[k], x) /\ ~lt(b[k + 1], x) /\ ~isna(b[k + 1])}
    IN IF isna(x) \/ hits = {} THEN NaN
       ELSE Some(l[CHOOSE k \in hits : \A j \in hits : k <= j])

cut(x, b, l) == [i \in 1..Len(x) |-> cut1(x[i], b, l)]

SexOrder == <<"female", "male">>

\* groupby([Pclass, Sex, age_group], observed=True).agg(...).reset_index()
\* and the sort: one row per observed key, keys ascending; a row with a null
\* key is in no group
demographics_df(d) ==
    LET rows == Index(d.rows)
        member(c, s, g) ==
            SelectSeq(rows, LAMBDA i : /\ d.rows[i]["Pclass"] = c
                                       /\ d.rows[i]["Sex"] = s
                                       /\ d.rows[i]["age_group"] = Some(g))
        classes == SortSet({d.rows[i]["Pclass"] : i \in 1..nrows(d)})
        group(c, s, g) ==
            LET idx == member(c, s, g)
                n_passengers == count(Cells(Column(d, "PassengerId")), idx)
                n_survivors == sum(Cells(Column(d, "Survived")), idx)
            IN IF idx = <<>> THEN <<>>
               ELSE <<[Pclass |-> c, Sex |-> s, age_group |-> g,
                       n_passengers |-> n_passengers,
                       n_survivors |-> n_survivors,
                       survival_rate |-> truediv(n_survivors, n_passengers)]>>
    IN Concat([ci \in 1..Len(classes) |->
         Concat([si \in 1..Len(SexOrder) |->
           Concat([gi \in 1..Len(labels) |->
             group(classes[ci], SexOrder[si], labels[gi])])])])

survival_demographics ==
    \E nanRaises \in (IF isna(bins(df)[5]) THEN BOOLEAN ELSE {FALSE}) :
        /\ passed' = df
        /\ IF cut_error(bins(df), nanRaises) # ""
           THEN /\ df' = df
                /\ result' = Raised("survival_demographics", cut_error(bins(df), nanRaises))
           ELSE LET d1 == setitem(df, "age_group", cut(Column(df, "Age"), bins(df), labels))
                IN /\ df' = d1
                   /\ result' = IF "Survived" \in d1.columns
                                THEN Returned("survival_demographics", demographics_df(d1))
                                ELSE Raised("survival_demographics", "KeyError")

---------------------------------------------------------------------------
\* Exercise 2: family_groups and last_names

\* groupby([Pclass, family_size]).agg(...).reset_index() and the sort
family_df(d) ==
    LET rows == Index(d.rows)
        classes == SortSet({d.rows[i]["Pclass"] : i \in 1..nrows(d)})
        sizes(c) == SortSet({d.rows[i]["family_size"] :
                               i \in {j \in 1..nrows(d) : d.rows[j]["Pclass"] = c}})
        group(c, f) ==
            LET idx == SelectSeq(rows, LAMBDA i : /\ d.rows[i]["Pclass"] = c
                                                  /\ d.rows[i]["family_size"] = f)
            IN [Pclass |-> c, family_size |-> f,
                n_passengers |-> count(Cells(Column(d, "PassengerId")), idx),
                avg_fare |-> mean(Column(d, "Fare"), idx),
                min_fare |-> min([k \in 1..Len(idx) |-> d.rows[idx[k]]["Fare"]]),
                max_fare |-> max([k \in 1..Len(idx) |-> d.rows[idx[k]]["Fare"]])]
    IN Concat([ci \in 1..Len(classes) |->
         [fi \in 1..Len(sizes(classes[ci])) |->
             group(classes[ci], sizes(classes[ci])[fi])]])

family_groups ==
    LET d1 == setitem(df, "family_size",
                      [i \in 1..nrows(df) |-> df.rows[i]["SibSp"] + df.rows[i]["Parch"] + 1])
    IN /\ passed' = df
       /\ df' = d1
       /\ result' = Returned("family_groups", family_df(d1))

\* name.split(',')[0]: the characters before the first comma, all of them
\* when there is none
RECURSIVE split0(_)
split0(name) ==
    IF name = <<>> \/ Head(name) = "," THEN <<>>
    ELSE <<Head(name)>> \o split0(Tail(name))

\* the distinct values of s in the order of their first appearance
RECURSIVE unique(_)
unique(s) ==
    IF s = <<>> THEN <<>>
    ELSE LET u == unique(SubSeq(s, 1, Len(s) - 1))
         IN IF \E k \in 1..Len(u) : u[k] = s[Len(s)] THEN u ELSE Append(u, s[Len(s)])

\* the entries of s by count descending, equal counts in the order of s
\* (the sort value_counts does is stable on tables this small)
RECURSIVE sort_desc(_)
sort_desc(s) ==
    IF s = <<>> THEN <<>>
    ELSE LET top == CHOOSE i \in 1..Len(s) :
                       /\ \A j \in 1..Len(s) : s[j].count <= s[i].count
                       /\ \A j \in 1..(i - 1) : s[j].count < s[i].count
         IN <<s[top]>> \o sort_desc(SubSeq(s, 1, top - 1) \o SubSeq(s, top + 1, Len(s)))

\* Series.value_counts()
value_counts(s) ==
    LET u == unique(s)
    IN sort_desc([k \in 1..Len(u) |->
                    [name |-> u[k],
                     count |-> Cardinality({i \in 1..Len(s) : s[i] = u[k]})]])

last_names_series(d) == [i \in 1..nrows(d) |-> split0(d.rows[i]["Name"])]

last_names ==
    /\ passed' = df
    /\ df' = df
    /\ result' = Returned("last_names", value_counts(last_names_series(df)))

---------------------------------------------------------------------------
\* Bonus question: determine_age_division and visualize_family_size

\* the integers of the sequence s in ascending order
RECURSIVE sorted(_)
sorted(s) ==
    IF s = <<>> THEN <<>>
    ELSE LET i == CHOOSE k \in 1..Len(s) : \A j \in 1..Len(s) : s[k] <= s[j]
         IN <<s[i]>> \o sorted(SubSeq(s, 1, i - 1) \o SubSeq(s, i + 1, Len(s)))

\* Series.median() over the rows idx: nulls skipped, the middle value, or the
\* mean of the two middle values; NaN when nothing is left
median(s, idx) ==
    LET v == sorted(notna(s, idx))
        n == Len(v)
    IN IF n = 0 THEN NaN
       ELSE IF n % 2 = 1 THEN Some([num |-> v[(n + 1) \div 2], den |-> 1])
            ELSE Some([num |-> v[n \div 2] + v[n \div 2 + 1], den |-> 2])

\* df.groupby('Pclass')['Age'].transform('median'): each row's class median
median_ages(d) ==
    [i \in 1..nrows(d) |->
        median(Column(d, "Age"),
               SelectSeq(Index(d.rows),
                         LAMBDA j : d.rows[j]["Pclass"] = d.rows[i]["Pclass"]))]

\* gt with >= for >
gt_or_equal(age, m) == ~isna(age) /\ ~isna(m) /\ Val(age) * Val(m).den >= Val(m).num

\* age > m, an age against an exact float; False when either is NaN
gt(age, m) == ~isna(age) /\ ~isna(m) /\ Val(age) * Val(m).den > Val(m).num

\* the function's effect on the table it is handed, which it also returns
age_division(d) ==
    setitem(d, "older_passenger",
            [i \in 1..nrows(d) |-> Some(gt(d.rows[i]["Age"], median_ages(d)[i]))])

determine_age_division ==
    /\ passed' = df
    /\ df' = age_division(df)
    /\ result' = Returned("determine_age_division", age_division(df))

\* groupby([Pclass, older_passenger])['Survived'].mean().reset_index(), with
\* older_passenger mapped to the chart's labels
bonus_df(age_data) ==
    LET rows == Index(age_data.rows)
        classes == SortSet({age_data.rows[i]["Pclass"] : i \in 1..nrows(age_data)})
        flags == <<FALSE, TRUE>>
        group(c, b) ==
            LET idx == SelectSeq(rows, LAMBDA i : /\ age_data.rows[i]["Pclass"] = c
                                                  /\ age_data.rows[i]["older_passenger"] = Some(b))
            IN IF idx = <<>> THEN <<>>
               ELSE <<[Pclass |-> c,
                       older_passenger |-> IF b THEN "Above Median Age"
                                                ELSE "Below/At Median Age",
                       Survived |-> mean(Cells(Column(age_data, "Survived")), idx)]>>
    IN Concat([ci \in 1..Len(classes) |->
         Concat([bi \in 1..Len(flags) |-> group(classes[ci], flags[bi])])])

\* the table works on a copy; the figure is built from bonus_df
visualize_family_size ==
    LET age_data == age_division(df)
    IN /\ passed' = df
       /\ df' = df
       /\ result' = IF "Survived" \in age_data.columns
                    THEN Returned("visualize_family_size", bonus_df(age_data))
                    ELSE Raised("visualize_family_size", "KeyError")

---------------------------------------------------------------------------
\* The tables handed to the transforms

Passenger(c, s, a, sib, par, f, sv, n) ==
    [Pclass |-> c, Sex |-> s, Age |-> a, SibSp |-> sib, Parch |-> par,
     Fare |-> f, Survived |-> sv, Name |-> n]

\* The passengers a table is drawn from
Manifest ==
    { Passenger(1, "female", Some(0),  0, 0, Some(10), 1, <<"B", ",", " ", "x">>),
      Passenger(1, "female", Some(12), 1, 0, Some(20), 0, <<"A">>),
      Passenger(1, "male",   Some(60), 0, 0, NaN,      0, <<" ", "B", " ", ",", "y">>),
      Passenger(2, "female", Some(30), 0, 0, Some(10), 1, <<"A", ",", "y", ",", "z">>),
      Passenger(2, "female", Some(59), 1, 1, NaN,      0, <<"A", " ">>),
      Passenger(2, "male",   NaN,      0, 0, Some(30), 1, <<"C", ",", "x">>) }

Columns == {"PassengerId", "Pclass", "Sex", "Age", "SibSp", "Parch", "Fare", "Survived", "Name"}

\* load_data(): a table of n passengers, PassengerId the row number; a feed
\* may lack the Survived column
Table(picks, cols) ==
    [columns |-> cols,
     rows |-> [i \in 1..Len(picks) |->
                 [c \in cols |-> IF c = "PassengerId" THEN i ELSE picks[i][c]]]]

Tables ==
    UNION { { Table(picks, cols) : picks \in [1..n -> Manifest],
                                   cols \in {Columns, Columns \ {"Survived"}} }
            : n \in 0..MaxRows }

Init ==
    /\ df \in Tables
    /\ passed = df
    /\ result = [status |-> "none", call |-> "none"]

Next ==
    \/ family_groups
    \/ survival_demographics
    \/ last_names
    \/ determine_age_division
    \/ visualize_family_size

Spec == Init /\ [][Next]_vars

---------------------------------------------------------------------------
\* What the transforms are required to do

Called(f) == result.call = f
Ok(f) == result.call = f /\ result.status = "ok"

\* the rows of a result table
Rows(t) == {t[k] : k \in 1..Len(t)}

\* s with its leading and trailing blanks removed
RECURSIVE lstrip(_)
lstrip(s) == IF s # <<>> /\ Head(s) = " " THEN lstrip(Tail(s)) ELSE s
RECURSIVE rstrip(_)
rstrip(s) == IF s # <<>> /\ s[Len(s)] = " " THEN rstrip(SubSeq(s, 1, Len(s) - 1)) ELSE s
strip(s) == rstrip(lstrip(s))

\* the code point of a character, and the order of strings it gives
ord(c) ==
    CASE c = " " -> 32 [] c = "," -> 44 [] c = "A" -> 65 [] c = "B" -> 66
      [] c = "C" -> 67 [] c = "x" -> 120 [] c = "y" -> 121 [] c = "z" -> 122
RECURSIVE str_lt(_, _)
str_lt(a, b) ==
    IF b = <<>> THEN FALSE
    ELSE IF a = <<>> THEN TRUE
    ELSE IF Head(a) # Head(b) THEN ord(Head(a)) < ord(Head(b))
    ELSE str_lt(Tail(a), Tail(b))

\* C1: after survival_demographics has banded the ages, every known age has
\* the band whose interval (edge, next edge] holds it, an age equal to the
\* lowest edge has the first band, and an unknown age has no band.
C1_BandsLeftOpenLowestInclusive ==
    "age_group" \in df.columns =>
        \A i \in 1..nrows(df) :
            LET a == df.rows[i]["Age"]
                g == df.rows[i]["age_group"]
                b == bins(df)
            IN IF isna(a) THEN isna(g)
               ELSE \A k \in 1..Len(labels) :
                       ( /\ (Val(b[k]) < Val(a) \/ (k = 1 /\ Val(a) = Val(b[1])))
                         /\ Val(a) <= Val(b[k + 1]) )
                       => g = Some(labels[k])

\* C2: the n_passengers of the rows a view returns add up to the rows the
\* view takes: those with a known age for survival_demographics, every row
\* for family_groups.
C2_CountsAddUpToEligibleRows ==
    /\ Ok("survival_demographics") =>
          SumSeq([k \in 1..Len(result.value) |-> result.value[k].n_passengers])
            = Cardinality({i \in 1..nrows(passed) : ~isna(passed.rows[i]["Age"])})
    /\ Ok("family_groups") =>
          SumSeq([k \in 1..Len(result.value) |-> result.value[k].n_passengers])
            = nrows(passed)

\* the rate of the rows idx of d that survived, as mean computes it
SurvivedMean(d, idx) == mean(Cells(Column(d, "Survived")), idx)
\* two exact floats are equal
SameFloat(x, y) ==
    IF isna(x) \/ isna(y) THEN isna(x) /\ isna(y)
    ELSE Val(x).num * Val(y).den = Val(y).num * Val(x).den

\* C3: a row of unknown age is given no older_passenger value by
\* determine_age_division, and the rates visualize_family_size charts are
\* those of the rows of known age alone: one rate per class and side of the
\* class median that has such rows.
C3_UnknownAgeUnclassifiedAndLeftOut ==
    /\ Ok("determine_age_division") =>
          \A i \in 1..nrows(df) :
              isna(df.rows[i]["Age"]) => isna(df.rows[i]["older_passenger"])
    /\ Ok("visualize_family_size") =>
          LET d == age_division(passed)
              known(c, b) ==
                  SelectSeq(Index(d.rows),
                            LAMBDA i : /\ d.rows[i]["Pclass"] = c
                                       /\ ~isna(d.rows[i]["Age"])
                                       /\ d.rows[i]["older_passenger"] = Some(b))
              label(b) == IF b THEN "Above Median Age" ELSE "Below/At Median Age"
          IN /\ \A r \in Rows(result.value) : \E b \in BOOLEAN :
                    /\ r.older_passenger = label(b)
                    /\ known(r.Pclass, b) # <<>>
                    /\ SameFloat(r.Survived, SurvivedMean(d, known(r.Pclass, b)))
             /\ \A i \in 1..nrows(d) : \A b \in BOOLEAN :
                    known(d.rows[i]["Pclass"], b) # <<>> =>
                        \E r \in Rows(result.value) :
                            r.Pclass = d.rows[i]["Pclass"] /\ r.older_passenger = label(b)

\* the rows of class c of d, those of known age, and those labelled above
InClass(d, c) == {i \in 1..nrows(d) : d.rows[i]["Pclass"] = c}
KnownAge(d, c) == {i \in InClass(d, c) : ~isna(d.rows[i]["Age"])}
Above(d, c) == {i \in InClass(d, c) : d.rows[i]["older_passenger"] = Some(TRUE)}
\* the age of row i is its class median
AtMedian(d, i) ==
    LET a == d.rows[i]["Age"]
        m == median_ages(d)[i]
    IN ~isna(a) /\ ~isna(m) /\ Val(a) * Val(m).den = Val(m).num

\* C4: after determine_age_division, in every class at most half of the rows
\* of known age are labelled above the class median, every row labelled above
\* is older than at least half of them, and a row whose age is the class
\* median is labelled not above.
C4_AtMostHalfAboveClassMedian ==
    Ok("determine_age_division") =>
        /\ \A c \in {df.rows[i]["Pclass"] : i \in 1..nrows(df)} :
              /\ 2 * Cardinality(Above(df, c)) <= Cardinality(KnownAge(df, c))
              /\ \A i \in Above(df, c) :
                    /\ i \in KnownAge(df, c)
                    /\ 2 * Cardinality({j \in KnownAge(df, c) :
                            Val(df.rows[j]["Age"]) < Val(df.rows[i]["Age"])})
                         >= Cardinality(KnownAge(df, c))
        /\ \A i \in 1..nrows(df) :
              AtMedian(df, i) => df.rows[i]["older_passenger"] = Some(FALSE)

\* C4 happens: a class of two known ages whose median lies between them, one
\* row above it, and a row of another class whose age is its class median.
C4_Witness ==
    /\ Ok("determine_age_division")
    /\ \E i \in 1..nrows(df) :
          /\ i \in Above(df, df.rows[i]["Pclass"])
          /\ Cardinality(KnownAge(df, df.rows[i]["Pclass"])) = 2
    /\ \E i \in 1..nrows(df) : AtMedian(df, i)

\* C5: the keys last_names counts are the names' parts before the first
\* comma with the blanks around them removed, the whole name when it has no
\* comma, and the call does not raise.
C5_KeyIsTrimmedPartBeforeComma ==
    Called("last_names") =>
        /\ result.status = "ok"
        /\ {r.name : r \in Rows(result.value)}
             = {strip(split0(passed.rows[i]["Name"])) : i \in 1..nrows(passed)}

\* C6: last_names gives every distinct last name with the number of rows that
\* have it, by count descending, and equal counts by last name ascending.
C6_CountsDescendingTiesByName ==
    Ok("last_names") =>
        LET t == result.value
            keys == last_names_series(passed)
        IN /\ {r.name : r \in Rows(t)} = {keys[i] : i \in 1..Len(keys)}
           /\ \A k \in 1..Len(t) :
                 t[k].count = Cardinality({i \in 1..Len(keys) : keys[i] = t[k].name})
           /\ \A j, k \in 1..Len(t) :
                 j < k => \/ t[j].count > t[k].count
                          \/ t[j].count = t[k].count /\ str_lt(t[j].name, t[k].name)

\* C7: survival_demographics, family_groups, determine_age_division and
\* last_names leave the table they are handed as it was.
C7_InputTableUnchanged ==
    Called("survival_demographics") \/ Called("family_groups")
      \/ Called("determine_age_division") \/ Called("last_names")
        => df.columns = passed.columns /\ df = passed

\* C8: on a table without a Survived column, survival_demographics and
\* visualize_family_size return passenger counts and no rate instead of
\* raising.
C8_NoSurvivedDegradesToCounts ==
    (Called("survival_demographics") \/ Called("visualize_family_size"))
      /\ "Survived" \notin passed.columns
        => /\ result.status = "ok"
           /\ \A r \in Rows(result.value) :
                 "n_passengers" \in DOMAIN r /\ "survival_rate" \notin DOMAIN r

\* C9: survival_demographics returns a table whatever the ages are (stated
\* for the tables with a Survived column and at least one known age, where
\* the outcome is the same under every pandas release).
C9_NoExceptionWhateverTheAges ==
    Called("survival_demographics") /\ "Survived" \in passed.columns
      /\ (\E i \in 1..nrows(passed) : ~isna(passed.rows[i]["Age"]))
        => result.status = "ok"

\* C10: every row survival_demographics returns has at least one passenger,
\* no more survivors than passengers, and survival_rate = n_survivors /
\* n_passengers, a number between 0 and 1.
C10_SurvivorsWithinPassengers ==
    Ok("survival_demographics") =>
        \A r \in Rows(result.value) :
            /\ r.n_passengers >= 1
            /\ 0 <= r.n_survivors /\ r.n_survivors <= r.n_passengers
            /\ ~isna(r.survival_rate)
            /\ Val(r.survival_rate).den > 0
            /\ 0 <= Val(r.survival_rate).num
            /\ Val(r.survival_rate).num <= Val(r.survival_rate).den
            /\ Val(r.survival_rate).num * r.n_passengers
                 = r.n_survivors * Val(r.survival_rate).den

\* C10 happens: a group of two passengers of whom one survived.
C10_Witness ==
    /\ Ok("survival_demographics")
    /\ \E r \in Rows(result.value) : r.n_passengers = 2 /\ r.n_survivors = 1

=============================================================================
